---------------------------- MODULE Spec2Model ----------------------------
(***************************************************************************)
(* Exchange-rate scraper: the browser session (webdriver_utils.py), the    *)
(* snapshot extractor and the historical extractor (scraper.py), and the   *)
(* two button handlers that acquire the session (app.py).                  *)
(*                                                                         *)
(* Three specifications share the module:                                  *)
(*   SpecSession   setup_driver / close_driver / process exit              *)
(*   SpecSnapshot  fetch_exchange_rates, one call, step by step            *)
(*   SpecHistory   fetch_historical_rates, one call, step by step          *)
(***************************************************************************)
EXTENDS Integers, Sequences, FiniteSets, TLC

VARIABLES
    \* ---- webdriver_utils.py / app.py: process-wide state
    cache,            \* the st.cache_resource entry of setup_driver
    launched,         \* number of browser processes started so far
    atexitHooks,      \* handles captured by the registered atexit lambdas
    quitCalls,        \* handle -> number of driver.quit() invocations
    quitErrors,       \* handles whose quit() raised inside close_driver
    exited,           \* the host process has run its atexit hooks
    calls,            \* history of setup_driver calls (caller, value, launch attempted)
    error_message,    \* st.session_state.error_message
    exchange_rates,   \* st.session_state.exchange_rates (abstract: empty / set)
    historical_rates, \* st.session_state.historical_rates (abstract: empty / set)
    \* ---- scraper.py: one call of an extractor
    page,             \* what the target site serves to the driver
    pc,               \* position inside the function
    exc,              \* exception in flight (class name) or "none"
    ret,              \* value handed to the caller
    log,              \* logger.error / logger.warning messages, in order
    rows,             \* local: rate_rows / table_rows
    idx,              \* local: position of the for loop (1-based)
    acc,              \* local: exchange_rates / historical_rates dict
    faulted,          \* history: the driver raised on its own at some step
    driverCalls,      \* history: driver calls made by this call
    rowsRead          \* history: indexes of the rows whose cells were read

sessionVars == <<cache, launched, atexitHooks, quitCalls, quitErrors, exited,
                 calls, error_message, exchange_rates, historical_rates>>
fetchVars == <<page, pc, exc, ret, log, rows, idx, acc, faulted, driverCalls, rowsRead>>
vars == <<sessionVars, fetchVars>>

---------------------------------------------------------------------------
(* Bounds *)
MaxCalls == 4
MaxRows == 3
MaxHistRows == 4

---------------------------------------------------------------------------
(* Python exceptions: the classes the code names, and their hierarchy      *)

\* direct base class
BaseOf(c) ==
    CASE c = "TimeoutException" -> "WebDriverException"
      [] c = "NoSuchElementException" -> "WebDriverException"
      [] c = "StaleElementReferenceException" -> "WebDriverException"
      [] c = "WebDriverException" -> "Exception"
      [] c = "ValueError" -> "Exception"
      [] c = "TypeError" -> "Exception"
      [] c = "IndexError" -> "Exception"
      [] OTHER -> "BaseException"

RECURSIVE IsInstance(_, _)
IsInstance(c, cls) ==
    IF c = cls THEN TRUE
    ELSE IF c = "BaseException" THEN FALSE
    ELSE IsInstance(BaseOf(c), cls)

\* what the driver can raise on its own at any call
DriverFaults ==
    {"TimeoutException", "NoSuchElementException", "StaleElementReferenceException",
     "WebDriverException", "Exception"}

---------------------------------------------------------------------------
(* Texts are sequences of one-character strings; float() is modelled on    *)
(* them: optional sign, digits with an optional point, "nan", "inf".       *)

Digits == {"0", "1", "2", "3", "4", "5", "6", "7", "8", "9"}

DigitVal(c) ==
    CASE c = "0" -> 0 [] c = "1" -> 1 [] c = "2" -> 2 [] c = "3" -> 3 [] c = "4" -> 4
      [] c = "5" -> 5 [] c = "6" -> 6 [] c = "7" -> 7 [] c = "8" -> 8 [] c = "9" -> 9

RECURSIVE LStrip(_)
LStrip(t) == IF t # <<>> /\ Head(t) = " " THEN LStrip(Tail(t)) ELSE t

RECURSIVE RStrip(_)
RStrip(t) ==
    IF t # <<>> /\ t[Len(t)] = " " THEN RStrip(SubSeq(t, 1, Len(t) - 1)) ELSE t

\* str.strip()
Strip(t) == RStrip(LStrip(t))

AllDigits(t) == \A k \in 1..Len(t) : t[k] \in Digits

RECURSIVE DigitsValue(_)
DigitsValue(t) ==
    IF t = <<>> THEN 0
    ELSE DigitsValue(SubSeq(t, 1, Len(t) - 1)) * 10 + DigitVal(t[Len(t)])

\* fractional digits as thousandths (the pages use at most three of them)
FracMilli(t) ==
    LET d(k) == IF k <= Len(t) THEN DigitVal(t[k]) ELSE 0
    IN d(1) * 100 + d(2) * 10 + d(3)

PointAt(t) ==
    IF \E k \in 1..Len(t) : t[k] = "."
    THEN CHOOSE k \in 1..Len(t) : t[k] = "." /\ \A j \in 1..(k - 1) : t[j] # "."
    ELSE 0

FloatValue(kind, milli) == [kind |-> kind, milli |-> milli]
FloatError(cls) == [kind |-> cls, milli |-> 0]

\* the unsigned part of a float literal
ParseUnsigned(t, sign) ==
    LET p == PointAt(t)
        ip == IF p = 0 THEN t ELSE SubSeq(t, 1, p - 1)
        fp == IF p = 0 THEN <<>> ELSE SubSeq(t, p + 1, Len(t))
    IN  IF t = <<"n", "a", "n">> THEN FloatValue("nan", 0)
        ELSE IF t = <<"i", "n", "f">> THEN FloatValue("inf", sign)
        ELSE IF /\ AllDigits(ip) /\ AllDigits(fp)
                /\ Len(ip) + Len(fp) >= 1
             THEN FloatValue("finite", sign * (DigitsValue(ip) * 1000 + FracMilli(fp)))
        ELSE FloatError("ValueError")

\* float(s) for a str s
ParseFloat(t) ==
    LET s == Strip(t)
    IN  IF s = <<>> THEN FloatError("ValueError")
        ELSE IF Head(s) = "-" THEN ParseUnsigned(Tail(s), -1)
        ELSE IF Head(s) = "+" THEN ParseUnsigned(Tail(s), 1)
        ELSE ParseUnsigned(s, 1)

\* float(x) where x is what get_attribute returned: a str, or None
FloatOfAttribute(a) ==
    IF a.present THEN ParseFloat(a.text) ELSE FloatError("TypeError")

IsFloat(f) == f.kind \in {"finite", "nan", "inf"}

\* Python's f > 0
GreaterThanZero(f) == f.kind \in {"finite", "inf"} /\ f.milli > 0

---------------------------------------------------------------------------
(* webdriver_utils.py                                                      *)

NoneValue == 0                      \* Python None where a handle is expected
Handles == 1..MaxCalls
NotCached == [hit |-> FALSE, value |-> NoneValue]

\* outcomes of the try block of setup_driver
LaunchOutcomes == {"launch_raises", "configure_raises", "ok"}

\* the fetch the handler makes once it holds a driver: a dict or None
FetchResults == {"dict", "None"}

CacheHitNever == FALSE

\* @st.cache_resource: the stored return value is served without running the body
CacheHit == cache.hit

\* the body of setup_driver: the value returned, processes started, hooks registered
SetupDriverBody(outcome) ==
    LET h == launched + 1
    IN  CASE outcome = "launch_raises" ->
               [value |-> NoneValue, launched |-> launched, hooks |-> atexitHooks]
          [] outcome = "configure_raises" ->
               [value |-> NoneValue, launched |-> h, hooks |-> atexitHooks]
          [] outcome = "ok" ->
               [value |-> h, launched |-> h, hooks |-> Append(atexitHooks, h)]

\* one call of the decorated setup_driver
SetupDriver(outcome) ==
    IF CacheHit
    THEN [value |-> cache.value, launched |-> launched, hooks |-> atexitHooks,
          cache |-> cache, attempted |-> FALSE]
    ELSE LET b == SetupDriverBody(outcome)
         IN  [value |-> b.value, launched |-> b.launched, hooks |-> b.hooks,
              cache |-> [hit |-> TRUE, value |-> b.value], attempted |-> TRUE]

\* close_driver(driver): number of quit() calls made, and whether an error escapes
CloseDriver(h, quitRaises) ==
    [quits |-> IF h # NoneValue THEN 1 ELSE 0,
     logged |-> h # NoneValue /\ quitRaises,
     escapes |-> FALSE]

CountIn(s, h) == Cardinality({k \in 1..Len(s) : s[k] = h})

InitSession ==
    /\ cache = NotCached
    /\ launched = 0
    /\ atexitHooks = <<>>
    /\ quitCalls = [h \in Handles |-> 0]
    /\ quitErrors = {}
    /\ exited = FALSE
    /\ calls = <<>>
    /\ error_message = "None"
    /\ exchange_rates = "empty"
    /\ historical_rates = "empty"

\* the part of a button handler around setup_driver
ButtonHandler(caller, outcome, fetched) ==
    LET s == SetupDriver(outcome)
    IN  /\ ~exited
        /\ Len(calls) < MaxCalls
        /\ cache' = s.cache
        /\ launched' = s.launched
        /\ atexitHooks' = s.hooks
        /\ calls' = Append(calls, [caller |-> caller, value |-> s.value,
                                   attempted |-> s.attempted])
        /\ error_message' =
             IF s.value = NoneValue THEN "driver_init_failed"
             ELSE IF fetched = "dict" THEN "None"
             ELSE "fetch_failed"
        /\ UNCHANGED <<quitCalls, quitErrors, exited>>

\* app.py: "get_rates_button"
GetRatesButton ==
    \E outcome \in LaunchOutcomes, fetched \in FetchResults :
        /\ ButtonHandler("get_rates_button", outcome, fetched)
        /\ exchange_rates' =
             IF SetupDriver(outcome).value # NoneValue /\ fetched = "dict"
             THEN "set" ELSE exchange_rates
        /\ UNCHANGED <<historical_rates, fetchVars>>

\* app.py: "get_historical_button"
GetHistoricalButton ==
    \E outcome \in LaunchOutcomes, fetched \in FetchResults :
        /\ ButtonHandler("get_historical_button", outcome, fetched)
        /\ historical_rates' =
             IF SetupDriver(outcome).value # NoneValue /\ fetched = "dict"
             THEN "set" ELSE historical_rates
        /\ UNCHANGED <<exchange_rates, fetchVars>>

\* interpreter exit: every registered atexit lambda runs close_driver(driver)
ProcessExit ==
    /\ ~exited
    /\ exited' = TRUE
    /\ \E raising \in SUBSET {atexitHooks[k] : k \in 1..Len(atexitHooks)} :
         /\ quitCalls' =
              [h \in Handles |->
                 quitCalls[h] + CountIn(atexitHooks, h) * CloseDriver(h, h \in raising).quits]
         /\ quitErrors' = {h \in raising : CloseDriver(h, TRUE).logged}
    /\ UNCHANGED <<cache, launched, atexitHooks, calls, error_message,
                   exchange_rates, historical_rates, fetchVars>>


---------------------------------------------------------------------------
(* scraper.py: what both extractors share                                  *)

Pending == [kind |-> "pending", value |-> <<>>]
NoneResult == [kind |-> "None", value |-> <<>>]     \* return None
DictResult(d) == [kind |-> "dict", value |-> d]     \* return the dict

EmptyDict == <<>>
DictSet(d, k, v) == [x \in (DOMAIN d) \cup {k} |-> IF x = k THEN v ELSE d[x]]

\* the except clauses after the function-wide try, in source order
OuterClauses ==
    <<"TimeoutException", "NoSuchElementException", "WebDriverException", "Exception">>

OuterClausesNoCatchAll ==
    <<"TimeoutException", "NoSuchElementException", "WebDriverException">>

\* the clauses of the function-wide try of fetch_exchange_rates
SnapshotClauses == OuterClauses

\* the clauses of the function-wide try of fetch_historical_rates
HistoryClauses == OuterClauses

\* first clause that matches the raised class; "escaped" when none does
Dispatch(clauses, e) ==
    IF \E k \in 1..Len(clauses) : IsInstance(e, clauses[k])
    THEN clauses[CHOOSE k \in 1..Len(clauses) :
                    /\ IsInstance(e, clauses[k])
                    /\ \A j \in 1..(k - 1) : ~IsInstance(e, clauses[j])]
    ELSE "escaped"

InitIdleSession == InitSession

InitIdleFetch ==
    /\ page = [visible |-> FALSE, rows |-> <<>>]
    /\ pc = "idle"
    /\ exc = "none"
    /\ ret = Pending
    /\ log = <<>>
    /\ rows = <<>>
    /\ idx = 0
    /\ acc = EmptyDict
    /\ faulted = FALSE
    /\ driverCalls = {}
    /\ rowsRead = {}

\* a driver call: it completes, or the driver raises one of DriverFaults
DriverOutcomes == {"ok"} \cup DriverFaults

---------------------------------------------------------------------------
(* scraper.py: fetch_exchange_rates                                        *)

T_1_5 == <<"1", ".", "5">>
T_0 == <<"0">>
T_neg2 == <<"-", "2">>
T_nan == <<"n", "a", "n">>
T_ab == <<"a", "b">>

Absent == [present |-> FALSE, text |-> <<>>]
Present(t) == [present |-> TRUE, text |-> t]

\* data-rate-value as the page carries it (None when the attribute is absent)
AttrValues == {Absent, Present(T_1_5), Present(T_0), Present(T_neg2), Present(T_nan),
               Present(T_ab)}
Codes == {"USD", "EUR"}

\* a .rate-row: its .currency-code text (or no such element), whether it has a
\* .rate-value cell, and that cell's data-rate-value
SnapshotRows ==
    {[code |-> "", hasCode |-> FALSE, hasCell |-> FALSE, attr |-> Absent]}
    \cup {[code |-> c, hasCode |-> TRUE, hasCell |-> FALSE, attr |-> Absent] : c \in Codes}
    \cup {[code |-> c, hasCode |-> TRUE, hasCell |-> TRUE, attr |-> a] :
             c \in Codes, a \in AttrValues}

SeqsUpTo(S, n) == UNION {[1..k -> S] : k \in 0..n}

SnapshotPages ==
    {[visible |-> v, rows |-> r] : v \in BOOLEAN, r \in SeqsUpTo(SnapshotRows, MaxRows)}

InitSnapshot ==
    /\ InitIdleSession
    /\ page \in SnapshotPages
    /\ pc = "get"
    /\ exc = "none"
    /\ ret = Pending
    /\ log = <<>>
    /\ rows = <<>>
    /\ idx = 0
    /\ acc = EmptyDict
    /\ faulted = FALSE
    /\ driverCalls = {}
    /\ rowsRead = {}

\* an exception leaves the function-wide try of fetch_exchange_rates
Raise(e) ==
    /\ exc' = e
    /\ pc' = LET c == Dispatch(SnapshotClauses, e)
             IN IF c = "escaped" THEN "escaped" ELSE "except_" \o c

\* driver.get(url)
Navigate ==
    /\ pc = "get"
    /\ driverCalls' = driverCalls \cup {"get"}
    /\ \E o \in DriverOutcomes :
         IF o = "ok"
         THEN pc' = "info" /\ UNCHANGED <<exc, faulted>>
         ELSE Raise(o) /\ faulted' = TRUE
    /\ UNCHANGED <<page, ret, log, rows, idx, acc, rowsRead, sessionVars>>

\* driver.title, driver.current_url
PageInfo ==
    /\ pc = "info"
    /\ driverCalls' = driverCalls \cup {"title", "current_url"}
    /\ \E o \in DriverOutcomes :
         IF o = "ok"
         THEN pc' = "wait" /\ UNCHANGED <<exc, faulted>>
         ELSE Raise(o) /\ faulted' = TRUE
    /\ UNCHANGED <<page, ret, log, rows, idx, acc, rowsRead, sessionVars>>

WaitAlwaysSucceeds(p) == TRUE

\* WebDriverWait(...).until(visibility_of_element_located(...)) returns
WaitSucceeds(p) == p.visible

WaitForTable ==
    /\ pc = "wait"
    /\ driverCalls' = driverCalls \cup {"wait"}
    /\ \E o \in DriverOutcomes :
         IF o = "ok"
         THEN /\ IF WaitSucceeds(page)
                 THEN pc' = "find" /\ UNCHANGED exc
                 ELSE Raise("TimeoutException")
              /\ UNCHANGED faulted
         ELSE Raise(o) /\ faulted' = TRUE
    /\ UNCHANGED <<page, ret, log, rows, idx, acc, rowsRead, sessionVars>>

NoRowsNever(rs) == FALSE

\* if not rate_rows
NoRows(rs) == Len(rs) = 0

FindRows ==
    /\ pc = "find"
    /\ driverCalls' = driverCalls \cup {"find_elements"}
    /\ \E o \in DriverOutcomes :
         IF o = "ok"
         THEN /\ rows' = page.rows
              /\ IF NoRows(page.rows)
                 THEN /\ log' = Append(log, "no_rate_rows")
                      /\ ret' = NoneResult
                      /\ pc' = "done"
                      /\ UNCHANGED <<idx, acc>>
                 ELSE /\ pc' = "loop"
                      /\ idx' = 1
                      /\ acc' = EmptyDict
                      /\ UNCHANGED <<log, ret>>
              /\ UNCHANGED <<exc, faulted>>
         ELSE /\ Raise(o)
              /\ faulted' = TRUE
              /\ UNCHANGED <<rows, idx, acc, log, ret>>
    /\ UNCHANGED <<page, rowsRead, sessionVars>>

\* the body of the for loop on one row: the exception it raises ("none" if
\* none) and the entry it stores
RowExtract(row) ==
    IF ~row.hasCode THEN [raises |-> "NoSuchElementException", code |-> "", rate |-> FloatError("none")]
    ELSE IF ~row.hasCell THEN [raises |-> "NoSuchElementException", code |-> row.code, rate |-> FloatError("none")]
    ELSE LET f == FloatOfAttribute(row.attr)
         IN  IF IsFloat(f) THEN [raises |-> "none", code |-> row.code, rate |-> f]
             ELSE [raises |-> f.kind, code |-> row.code, rate |-> f]

\* except (NoSuchElementException, ValueError) inside the loop
RowClauses == <<"NoSuchElementException", "ValueError">>

ProcessRow ==
    /\ pc = "loop"
    /\ idx <= Len(rows)
    /\ rowsRead' = rowsRead \cup {idx}
    /\ \E o \in DriverOutcomes :
         LET x == RowExtract(rows[idx])
             e == IF o = "ok" THEN x.raises ELSE o
         IN  /\ faulted' = (faulted \/ o # "ok")
             /\ IF e = "none"
                THEN /\ acc' = DictSet(acc, x.code, x.rate)
                     /\ idx' = idx + 1
                     /\ UNCHANGED <<pc, exc, log>>
                ELSE IF Dispatch(RowClauses, e) # "escaped"
                THEN /\ log' = Append(log, "row_warning")
                     /\ idx' = idx + 1
                     /\ UNCHANGED <<pc, exc, acc>>
                ELSE /\ Raise(e)
                     /\ UNCHANGED <<idx, acc, log>>
    /\ UNCHANGED <<page, ret, rows, driverCalls, sessionVars>>

EmptyResultNever(d) == FALSE

\* if not exchange_rates
EmptyResult(d) == DOMAIN d = {}

Finish ==
    /\ pc = "loop"
    /\ idx > Len(rows)
    /\ pc' = "done"
    /\ IF EmptyResult(acc)
       THEN log' = Append(log, "no_valid_rates") /\ ret' = NoneResult
       ELSE ret' = DictResult(acc) /\ UNCHANGED log
    /\ UNCHANGED <<page, exc, rows, idx, acc, faulted, driverCalls, rowsRead, sessionVars>>

\* except Exception around the read of driver.page_source
PageSourceClauses == <<"Exception">>

\* except TimeoutException
HandleTimeout ==
    /\ pc = "except_TimeoutException"
    /\ driverCalls' = driverCalls \cup {"page_source"}
    /\ \E o \in DriverOutcomes :
         IF o = "ok"
         THEN /\ log' = Append(log, "timeout")
              /\ ret' = NoneResult
              /\ pc' = "done"
              /\ UNCHANGED <<exc, faulted>>
         ELSE /\ faulted' = TRUE
              /\ IF Dispatch(PageSourceClauses, o) # "escaped"
                 THEN /\ log' = log \o <<"timeout", "page_source_error">>
                      /\ ret' = NoneResult
                      /\ pc' = "done"
                      /\ UNCHANGED exc
                 ELSE /\ log' = Append(log, "timeout")
                      /\ exc' = o
                      /\ pc' = "escaped"
                      /\ UNCHANGED ret
    /\ UNCHANGED <<page, rows, idx, acc, rowsRead, sessionVars>>

\* except NoSuchElementException
HandleNoSuchElement ==
    /\ pc = "except_NoSuchElementException"
    /\ log' = Append(log, "element_not_found")
    /\ ret' = NoneResult
    /\ pc' = "done"
    /\ UNCHANGED <<page, exc, rows, idx, acc, faulted, driverCalls, rowsRead, sessionVars>>

\* except WebDriverException
HandleWebDriverException ==
    /\ pc = "except_WebDriverException"
    /\ log' = Append(log, "webdriver_error")
    /\ ret' = NoneResult
    /\ pc' = "done"
    /\ UNCHANGED <<page, exc, rows, idx, acc, faulted, driverCalls, rowsRead, sessionVars>>

\* except Exception
HandleException ==
    /\ pc = "except_Exception"
    /\ log' = Append(log, "unexpected_error")
    /\ ret' = NoneResult
    /\ pc' = "done"
    /\ UNCHANGED <<page, exc, rows, idx, acc, faulted, driverCalls, rowsRead, sessionVars>>

NextSnapshot ==
    \/ Navigate
    \/ PageInfo
    \/ WaitForTable
    \/ FindRows
    \/ ProcessRow
    \/ Finish
    \/ HandleTimeout
    \/ HandleNoSuchElement
    \/ HandleWebDriverException
    \/ HandleException

SpecSnapshot == InitSnapshot /\ [][NextSnapshot]_vars

---------------------------------------------------------------------------
(* Session specification                                                   *)

NextSession ==
    \/ GetRatesButton
    \/ GetHistoricalButton
    \/ ProcessExit

InitSessionSpec ==
    /\ InitSession
    /\ InitIdleFetch

SpecSession == InitSessionSpec /\ [][NextSession]_vars

---------------------------------------------------------------------------
(* scraper.py: fetch_historical_rates                                      *)

D1 == <<"0", "1">>
D2 == <<"0", "2">>
T_bad == <<"b", "a", "d">>
T_2 == <<"2">>
Dates == {D1, D2}
RateTexts == {T_1_5, T_bad}

\* a tr: the texts of its td cells, in order (a header made of th has none)
HistoryRows ==
    {<<>>, <<D1>>, <<D1, T_2, T_ab>>}
    \cup {<<d, r>> : d \in Dates, r \in RateTexts}

HistoryPages ==
    {[visible |-> v, rows |-> r] : v \in BOOLEAN, r \in SeqsUpTo(HistoryRows, MaxHistRows)}

InitHistory ==
    /\ InitIdleSession
    /\ page \in HistoryPages
    /\ pc = "h_get"
    /\ exc = "none"
    /\ ret = Pending
    /\ log = <<>>
    /\ rows = <<>>
    /\ idx = 0
    /\ acc = EmptyDict
    /\ faulted = FALSE
    /\ driverCalls = {}
    /\ rowsRead = {}

\* an exception leaves the function-wide try of fetch_historical_rates
HRaise(e) ==
    /\ exc' = e
    /\ pc' = LET c == Dispatch(HistoryClauses, e)
             IN IF c = "escaped" THEN "escaped" ELSE "h_except_" \o c

\* driver.get(url)
HNavigate ==
    /\ pc = "h_get"
    /\ driverCalls' = driverCalls \cup {"get"}
    /\ \E o \in DriverOutcomes :
         IF o = "ok"
         THEN pc' = "h_info" /\ UNCHANGED <<exc, faulted>>
         ELSE HRaise(o) /\ faulted' = TRUE
    /\ UNCHANGED <<page, ret, log, rows, idx, acc, rowsRead, sessionVars>>

\* driver.title, driver.current_url
HPageInfo ==
    /\ pc = "h_info"
    /\ driverCalls' = driverCalls \cup {"title", "current_url"}
    /\ \E o \in DriverOutcomes :
         IF o = "ok"
         THEN pc' = "h_wait" /\ UNCHANGED <<exc, faulted>>
         ELSE HRaise(o) /\ faulted' = TRUE
    /\ UNCHANGED <<page, ret, log, rows, idx, acc, rowsRead, sessionVars>>

\* WebDriverWait(...).until(visibility_of_element_located((By.TAG_NAME, "table")))
HWaitForTable ==
    /\ pc = "h_wait"
    /\ driverCalls' = driverCalls \cup {"wait"}
    /\ \E o \in DriverOutcomes :
         IF o = "ok"
         THEN /\ IF page.visible
                 THEN pc' = "h_find" /\ UNCHANGED exc
                 ELSE HRaise("TimeoutException")
              /\ UNCHANGED faulted
         ELSE HRaise(o) /\ faulted' = TRUE
    /\ UNCHANGED <<page, ret, log, rows, idx, acc, rowsRead, sessionVars>>

\* if len(table_rows) <= 1
TooFewRows(rs) == Len(rs) <= 1

FirstDataRowIsHeader == 2 - 1

\* table_rows[1:] starts at the second row (1-based position 2)
FirstDataRow == 2

HFindRows ==
    /\ pc = "h_find"
    /\ driverCalls' = driverCalls \cup {"find_elements"}
    /\ \E o \in DriverOutcomes :
         IF o = "ok"
         THEN /\ rows' = page.rows
              /\ IF TooFewRows(page.rows)
                 THEN /\ log' = Append(log, "no_data_rows")
                      /\ ret' = NoneResult
                      /\ pc' = "done"
                      /\ UNCHANGED <<idx, acc>>
                 ELSE /\ pc' = "h_loop"
                      /\ idx' = FirstDataRow
                      /\ acc' = EmptyDict
                      /\ UNCHANGED <<log, ret>>
              /\ UNCHANGED <<exc, faulted>>
         ELSE /\ HRaise(o)
              /\ faulted' = TRUE
              /\ UNCHANGED <<rows, idx, acc, log, ret>>
    /\ UNCHANGED <<page, rowsRead, sessionVars>>

EnoughColumnsStrict(columns) == Len(columns) > 2

\* if len(columns) >= 2
EnoughColumns(columns) == Len(columns) >= 2

\* columns[i] of a Python list (0-based): the element, or IndexError
ColumnText(columns, i) ==
    IF i + 1 <= Len(columns) THEN [raises |-> "none", text |-> columns[i + 1]]
    ELSE [raises |-> "IndexError", text |-> <<>>]

\* the body of the for loop on one row: what it does ("store", "skip",
\* "bad_rate" or "raise"), and the entry it stores
HRowExtract(columns) ==
    IF EnoughColumns(columns)
    THEN LET c0 == ColumnText(columns, 0)
             c1 == ColumnText(columns, 1)
         IN  IF c0.raises # "none"
             THEN [does |-> "raise", raises |-> c0.raises, date |-> <<>>, rate |-> FloatError("none")]
             ELSE IF c1.raises # "none"
             THEN [does |-> "raise", raises |-> c1.raises, date |-> <<>>, rate |-> FloatError("none")]
             ELSE LET f == ParseFloat(Strip(c1.text))
                  IN  IF IsFloat(f)
                      THEN [does |-> "store", raises |-> "none", date |-> Strip(c0.text), rate |-> f]
                      ELSE IF f.kind = "ValueError"
                      THEN [does |-> "bad_rate", raises |-> "none", date |-> Strip(c0.text), rate |-> f]
                      ELSE [does |-> "raise", raises |-> f.kind, date |-> <<>>, rate |-> f]
    ELSE [does |-> "skip", raises |-> "none", date |-> <<>>, rate |-> FloatError("none")]

\* except (NoSuchElementException, IndexError) inside the loop
HRowClauses == <<"NoSuchElementException", "IndexError">>

HProcessRow ==
    /\ pc = "h_loop"
    /\ idx <= Len(rows)
    /\ rowsRead' = rowsRead \cup {idx}
    /\ \E o \in DriverOutcomes :
         LET x == HRowExtract(rows[idx])
             e == IF o = "ok" THEN x.raises ELSE o
         IN  /\ faulted' = (faulted \/ o # "ok")
             /\ IF e = "none"
                THEN /\ acc' = IF x.does = "store" THEN DictSet(acc, x.date, x.rate) ELSE acc
                     /\ log' = IF x.does = "bad_rate" THEN Append(log, "rate_warning") ELSE log
                     /\ idx' = idx + 1
                     /\ UNCHANGED <<pc, exc>>
                ELSE IF Dispatch(HRowClauses, e) # "escaped"
                THEN /\ log' = Append(log, "row_warning")
                     /\ idx' = idx + 1
                     /\ UNCHANGED <<pc, exc, acc>>
                ELSE /\ HRaise(e)
                     /\ UNCHANGED <<idx, acc, log>>
    /\ UNCHANGED <<page, ret, rows, driverCalls, sessionVars>>

\* if not historical_rates ... return historical_rates
HFinish ==
    /\ pc = "h_loop"
    /\ idx > Len(rows)
    /\ pc' = "done"
    /\ IF DOMAIN acc = {}
       THEN log' = Append(log, "no_valid_history") /\ ret' = NoneResult
       ELSE ret' = DictResult(acc) /\ UNCHANGED log
    /\ UNCHANGED <<page, exc, rows, idx, acc, faulted, driverCalls, rowsRead, sessionVars>>

\* except TimeoutException
HHandleTimeout ==
    /\ pc = "h_except_TimeoutException"
    /\ log' = Append(log, "timeout")
    /\ ret' = NoneResult
    /\ pc' = "done"
    /\ UNCHANGED <<page, exc, rows, idx, acc, faulted, driverCalls, rowsRead, sessionVars>>

\* except NoSuchElementException
HHandleNoSuchElement ==
    /\ pc = "h_except_NoSuchElementException"
    /\ log' = Append(log, "element_not_found")
    /\ ret' = NoneResult
    /\ pc' = "done"
    /\ UNCHANGED <<page, exc, rows, idx, acc, faulted, driverCalls, rowsRead, sessionVars>>

\* except WebDriverException
HHandleWebDriverException ==
    /\ pc = "h_except_WebDriverException"
    /\ log' = Append(log, "webdriver_error")
    /\ ret' = NoneResult
    /\ pc' = "done"
    /\ UNCHANGED <<page, exc, rows, idx, acc, faulted, driverCalls, rowsRead, sessionVars>>

\* except Exception
HHandleException ==
    /\ pc = "h_except_Exception"
    /\ log' = Append(log, "unexpected_error")
    /\ ret' = NoneResult
    /\ pc' = "done"
    /\ UNCHANGED <<page, exc, rows, idx, acc, faulted, driverCalls, rowsRead, sessionVars>>

NextHistory ==
    \/ HNavigate
    \/ HPageInfo
    \/ HWaitForTable
    \/ HFindRows
    \/ HProcessRow
    \/ HFinish
    \/ HHandleTimeout
    \/ HHandleNoSuchElement
    \/ HHandleWebDriverException
    \/ HHandleException

SpecHistory == InitHistory /\ [][NextHistory]_vars

---------------------------------------------------------------------------
(* Both extractors, one call of either                                     *)

InitExtract == InitSnapshot \/ InitHistory

NextExtract == NextSnapshot \/ NextHistory

SpecExtract == InitExtract /\ [][NextExtract]_vars

---------------------------------------------------------------------------
(* Properties                                                              *)

LastLog == IF log = <<>> THEN "" ELSE log[Len(log)]

\* the page behaved: the table became visible and the driver raised nothing of its own
WellBehaved == page.visible /\ ~faulted

\* a snapshot row is valid when its code element and its rate cell exist and
\* its data-rate-value is present and parses as a number
ValidSnapshotRow(row) ==
    /\ row.hasCode
    /\ row.hasCell
    /\ row.attr.present
    /\ IsFloat(ParseFloat(row.attr.text))

ValidSnapshotIndexes == {k \in 1..Len(page.rows) : ValidSnapshotRow(page.rows[k])}

\* C1: on a page whose table is visible and that has N >= 1 valid rows among
\* any number of invalid ones, fetch_exchange_rates returns a dict with exactly
\* N entries, one per valid row; invalid rows never fail the call.
C1_ValidRowsAllReturned ==
    (pc = "done" /\ WellBehaved /\ ValidSnapshotIndexes # {}) =>
        /\ ret.kind = "dict"
        /\ Cardinality(DOMAIN ret.value) = Cardinality(ValidSnapshotIndexes)
        /\ \A k \in ValidSnapshotIndexes : page.rows[k].code \in DOMAIN ret.value

\* C2: once a setup_driver call has returned a handle, every later call
\* returns that same handle without launching, and at most one browser process
\* is ever started.
C2_SameHandleOneBrowser ==
    /\ launched <= 1
    /\ \A i \in 1..Len(calls) : \A j \in 1..Len(calls) :
         (i < j /\ calls[i].value # NoneValue) =>
             /\ calls[j].value = calls[i].value
             /\ ~calls[j].attempted

C2_Witness ==
    /\ Len(calls) >= 3
    /\ calls[1].value # NoneValue
    /\ calls[3].value = calls[1].value
    /\ calls[2].caller # calls[3].caller

\* C3: a setup_driver call whose launch failed returns None and leaves nothing
\* cached, so the next call attempts the launch again.
C3_FailedLaunchRetried ==
    \A i \in 1..Len(calls) :
        (calls[i].attempted /\ calls[i].value = NoneValue) =>
            IF i < Len(calls) THEN calls[i + 1].attempted ELSE ~cache.hit

\* the loop ran over every row and stored nothing
NoneParsed ==
    /\ pc = "done"
    /\ rows = page.rows
    /\ Len(rows) > 0
    /\ idx > Len(rows)
    /\ acc = EmptyDict

\* the row selector matched nothing
ZeroRows == pc = "done" /\ WellBehaved /\ Len(page.rows) = 0

C5_NoExceptionEscapes ==
    /\ pc # "escaped"
    /\ pc = "done" => ret.kind \in {"None", "dict"}
    /\ pc # "done" => ret = Pending

C5_Witness ==
    /\ pc = "done"
    /\ ret = NoneResult
    /\ "page_source" \in driverCalls
    /\ LastLog = "page_source_error"

\* the dict the data rows define: rows after the first, in order, each row with
\* at least two cells and a numeric second cell setting first cell -> rate
RECURSIVE HistoryOf(_, _)
HistoryOf(rs, n) ==
    IF n <= 1 THEN EmptyDict
    ELSE LET d == HistoryOf(rs, n - 1)
             r == rs[n]
         IN  IF Len(r) >= 2 /\ IsFloat(ParseFloat(r[2]))
             THEN DictSet(d, r[1], ParseFloat(r[2]))
             ELSE d

ExpectedHistory == HistoryOf(page.rows, Len(page.rows))

\* C6 (as stated): for every table with at least two rows, fetch_historical_rates
\* returns exactly the dict built from the usable rows after the first.
C6_MappingFromDataRows ==
    (pc = "done" /\ WellBehaved /\ Len(page.rows) >= 2) =>
        ret = DictResult(ExpectedHistory)

\* C6 (amended): it returns that dict when at least one row after the first is
\* usable, and None when none is.
C6_MappingOrNone ==
    (pc = "done" /\ WellBehaved /\ Len(page.rows) >= 2) =>
        IF ExpectedHistory = EmptyDict
        THEN ret = NoneResult
        ELSE ret = DictResult(ExpectedHistory)

\* header, a good row, a bad rate, a good row: two entries
C6_Witness ==
    /\ pc = "done"
    /\ WellBehaved
    /\ Len(page.rows) = 4
    /\ page.rows[2] = <<D1, T_1_5>>
    /\ page.rows[3] = <<D2, T_bad>>
    /\ page.rows[4] = <<D2, T_1_5>>
    /\ ret.kind = "dict"
    /\ DOMAIN ret.value = {D1, D2}
    /\ ret.value[D2] = FloatValue("finite", 1500)

\* C7: when the table never becomes visible, fetch_exchange_rates returns None
\* after logging the timeout and never enumerates rows or reads a row; rows are
\* only ever enumerated or read after the wait returned.
C7_TimeoutNoRowExtraction ==
    /\ ~page.visible =>
         /\ "find_elements" \notin driverCalls
         /\ rowsRead = {}
         /\ pc = "done" => ret = NoneResult
         /\ (pc = "done" /\ ~faulted) => "timeout" \in {log[k] : k \in 1..Len(log)}
    /\ ("find_elements" \in driverCalls \/ rowsRead # {}) =>
         (page.visible /\ "wait" \in driverCalls)

C7_Witness ==
    /\ ~page.visible
    /\ Len(page.rows) >= 1
    /\ ~faulted
    /\ pc = "done"
    /\ ret = NoneResult
    /\ log = <<"timeout">>

\* C8: at process exit every browser that was started has had quit() invoked
\* exactly once.
C8_QuitExactlyOnce ==
    exited => \A h \in 1..launched : quitCalls[h] = 1

\* C9 (as stated): a returned dict is non-empty and every rate in it is > 0.
C9_SuccessNonEmptyPositive ==
    (pc = "done" /\ ret.kind = "dict") =>
        /\ DOMAIN ret.value # {}
        /\ \A c \in DOMAIN ret.value : GreaterThanZero(ret.value[c])

\* C9 (amended): a returned dict is non-empty and every rate in it is the float
\* parsed from the data-rate-value of a row with that code, whatever its sign
\* or finiteness.
C9_SuccessNonEmptyParsed ==
    (pc = "done" /\ ret.kind = "dict") =>
        /\ DOMAIN ret.value # {}
        /\ \A c \in DOMAIN ret.value :
             \E k \in 1..Len(page.rows) :
                 /\ page.rows[k].hasCode /\ page.rows[k].code = c
                 /\ page.rows[k].hasCell /\ page.rows[k].attr.present
                 /\ IsFloat(ret.value[c])
                 /\ ret.value[c] = ParseFloat(page.rows[k].attr.text)

C9_Witness ==
    /\ pc = "done"
    /\ ret.kind = "dict"
    /\ \E c \in DOMAIN ret.value : ret.value[c] = FloatValue("finite", 0)
    /\ \E c \in DOMAIN ret.value : ret.value[c] = FloatValue("nan", 0)

\* C10: the first row of the table is never read and never contributes an
\* entry, and a table with fewer than two rows gives None with no row read.
C10_FirstRowDiscarded ==
    /\ 1 \notin rowsRead
    /\ (pc = "done" /\ ret.kind = "dict") =>
         \A d \in DOMAIN ret.value :
             \E k \in 2..Len(page.rows) :
                 /\ Len(page.rows[k]) >= 2
                 /\ page.rows[k][1] = d
                 /\ ParseFloat(page.rows[k][2]) = ret.value[d]
    /\ (Len(page.rows) < 2 /\ "find_elements" \in driverCalls /\ ~faulted /\ pc = "done") =>
         (ret = NoneResult /\ rowsRead = {} /\ LastLog = "no_data_rows")

\* the first row is a well-formed data row, and its date is not in the result
C10_Witness ==
    /\ pc = "done"
    /\ WellBehaved
    /\ Len(page.rows) >= 2
    /\ page.rows[1] = <<D1, T_1_5>>
    /\ ret.kind = "dict"
    /\ D1 \notin DOMAIN ret.value

=============================================================================
